---- MODULE Spec2Model ----
(***************************************************************************)
(* Track editor (TrackViewComponent) and vehicle simulator (Car) of the    *)
(* Vehicle Dynamics Simulation Platform.                                   *)
(*                                                                         *)
(* Numbers.  The program computes in IEEE doubles; the model computes in   *)
(* fixed point on integers:                                                *)
(*   lengths, coordinates, arc length s : 1/LenScale metre                 *)
(*   angles                            : 1/AngScale radian                 *)
(*   sin, cos                          : 1/TrigScale                       *)
(*   speed                             : cm/s                              *)
(*   forces                            : dN (0.1 N)                        *)
(*   dt                                : ms                                *)
(* Vehicle state fields that the program can drive to NaN or +-Infinity    *)
(* (speed, s, position) are extended values: records [k, v] with           *)
(* k = "fin" (v the number), "nan", or "inf" (v = 1 or -1, the sign).      *)
(***************************************************************************)
EXTENDS Integers, Sequences, FiniteSets, TLC

\* ------------------------------------------------------------------------
\* Fixed-point scales
\* ------------------------------------------------------------------------
LenScale == 10000
AngScale == 10000
TrigScale == 10000

\* Math.PI, in 1/AngScale radian
Pi == 31416
TwoPi == 2 * Pi
HalfPi == Pi \div 2
QuarterPi == Pi \div 4

\* ------------------------------------------------------------------------
\* Integer helpers
\* ------------------------------------------------------------------------
Abs(n) == IF n < 0 THEN -n ELSE n

Sign(n) == IF n > 0 THEN 1 ELSE IF n < 0 THEN -1 ELSE 0

Min2(a, b) == IF a < b THEN a ELSE b

Max2(a, b) == IF a > b THEN a ELSE b

\* a / b rounded toward zero, as a double division followed by truncation
\* of the fixed-point result (b # 0)
TDiv(a, b) == Sign(a) * Sign(b) * (Abs(a) \div Abs(b))

\* a / b rounded to the nearest unit (b # 0)
RDiv(a, b) == Sign(a) * Sign(b) * ((2 * Abs(a) + Abs(b)) \div (2 * Abs(b)))

\* Math.ceil(a / b) for a >= 0, b > 0
CeilDiv(a, b) == (a + b - 1) \div b

\* the largest root whose square is a 32-bit integer
SqrtMax == 46340

\* r = base + k * step fits under the root of n
SqrtFits(n, r) == r <= SqrtMax /\ r * r <= n

\* one hexadecimal digit of the root: the largest base + k * step, k in
\* 0..15, that fits, given that base does
SqrtDigit(n, base, step) ==
    base + step * (CHOOSE k \in 0..15 :
                      /\ SqrtFits(n, base + k * step)
                      /\ (k = 15 \/ ~SqrtFits(n, base + (k + 1) * step)))

\* Math.sqrt on a non-negative integer: the largest r with r*r <= n
ISqrt(n) ==
    SqrtDigit(n, SqrtDigit(n, SqrtDigit(n, SqrtDigit(n, 0, 4096), 256), 16), 1)

\* ------------------------------------------------------------------------
\* Math.sin, Math.cos, Math.atan2 in fixed point
\* ------------------------------------------------------------------------
\* sin(a) for 0 <= a <= Pi/4: a - a^3/6 + a^5/120
SinSeries(a) ==
    LET a2 == (a * a) \div AngScale
        a3 == (a2 * a) \div AngScale
        a5 == (a3 * a2) \div AngScale
    IN a - RDiv(a3, 6) + RDiv(a5, 120)

\* cos(a) for 0 <= a <= Pi/4: 1 - a^2/2 + a^4/24 - a^6/720
CosSeries(a) ==
    LET a2 == (a * a) \div AngScale
        a4 == (a2 * a2) \div AngScale
        a6 == (a4 * a2) \div AngScale
    IN TrigScale - RDiv(a2, 2) + RDiv(a4, 24) - RDiv(a6, 720)

\* sin(a) for 0 <= a <= Pi/2
SinQ(a) == IF a <= QuarterPi THEN SinSeries(a) ELSE CosSeries(HalfPi - a)

\* Math.sin(a)
Sin(a) ==
    LET r == a % TwoPi
    IN IF r <= HalfPi THEN SinQ(r)
       ELSE IF r <= Pi THEN SinQ(Pi - r)
       ELSE IF r <= Pi + HalfPi THEN -SinQ(r - Pi)
       ELSE -SinQ(TwoPi - r)

\* Math.cos(a)
Cos(a) == Sin(a + HalfPi)

\* atan(w) for |w| <= tan(Pi/8), w in 1/AngScale:
\* w - w^3/3 + w^5/5 - w^7/7 + w^9/9
AtanSeries(w) ==
    LET w2 == (w * w) \div AngScale
        w3 == (w2 * w) \div AngScale
        w5 == (w3 * w2) \div AngScale
        w7 == (w5 * w2) \div AngScale
        w9 == (w7 * w2) \div AngScale
    IN w - RDiv(w3, 3) + RDiv(w5, 5) - RDiv(w7, 7) + RDiv(w9, 9)

\* tan(Pi/8), in 1/AngScale
TanEighthPi == 4142

\* atan(z) for 0 <= z <= 1, z in 1/AngScale:
\* atan(z) = Pi/4 - atan((1 - z) / (1 + z)) above tan(Pi/8)
AtanUnit(z) ==
    IF z <= TanEighthPi THEN AtanSeries(z)
    ELSE QuarterPi - AtanSeries(((AngScale - z) * AngScale) \div (AngScale + z))

\* the angle of (x, y) for 0 < x, y <= 100000 (10 m), which covers every
\* difference taken here
AtanPositive(y, x) ==
    IF y <= x THEN AtanUnit(RDiv(y * AngScale, x))
    ELSE HalfPi - AtanUnit(RDiv(x * AngScale, y))

\* the angle of (x, y), x # 0 and y # 0, from the angle t of (|x|, |y|)
AtanQuadrant(y, x, t) == IF x > 0 THEN Sign(y) * t ELSE Sign(y) * (Pi - t)

\* Math.atan2(y, x), result in (-Pi, Pi]; atan2(0, 0) = 0
Atan2(y, x) ==
    IF x = 0 /\ y = 0 THEN 0
    ELSE IF y = 0 THEN (IF x > 0 THEN 0 ELSE Pi)
    ELSE IF x = 0 THEN (IF y > 0 THEN HalfPi ELSE -HalfPi)
    ELSE AtanQuadrant(y, x, AtanPositive(Abs(y), Abs(x)))

\* ------------------------------------------------------------------------
\* Extended values: a double that may be NaN or +-Infinity
\* ------------------------------------------------------------------------
Fin(n) == [k |-> "fin", v |-> n]

NaN == [k |-> "nan", v |-> 0]

Inf(sgn) == [k |-> "inf", v |-> sgn]

IsFin(a) == a.k = "fin"

IsNaN(a) == a.k = "nan"

\* the sign of an extended value that is not NaN
ESign(a) == IF IsFin(a) THEN Sign(a.v) ELSE a.v

\* a + b
EAdd(a, b) ==
    IF IsNaN(a) \/ IsNaN(b) THEN NaN
    ELSE IF IsFin(a) /\ IsFin(b) THEN Fin(a.v + b.v)
    ELSE IF IsFin(a) THEN b
    ELSE IF IsFin(b) THEN a
    ELSE IF a.v = b.v THEN a ELSE NaN

\* -a
ENeg(a) == IF IsNaN(a) THEN NaN ELSE [k |-> a.k, v |-> -a.v]

\* a - b
ESub(a, b) == EAdd(a, ENeg(b))

\* a * (n / d) for integers n and d > 0: a product with a finite factor
EScale(a, n, d) ==
    IF IsNaN(a) THEN NaN
    ELSE IF IsFin(a) THEN Fin(TDiv(a.v * n, d))
    ELSE IF n = 0 THEN NaN ELSE Inf(a.v * Sign(n))

\* (a * scale) / m for integers scale > 0 and m >= 0: a quotient whose
\* divisor may be zero (x/0 is +-Infinity, 0/0 is NaN)
EDiv(a, scale, m) ==
    IF IsNaN(a) THEN NaN
    ELSE IF m = 0 THEN (IF ESign(a) = 0 THEN NaN ELSE Inf(ESign(a)))
    ELSE IF IsFin(a) THEN Fin(TDiv(a.v * scale, m))
    ELSE a

\* a < b (false when either is NaN)
ELt(a, b) ==
    IF IsNaN(a) \/ IsNaN(b) THEN FALSE
    ELSE IF IsFin(a) /\ IsFin(b) THEN a.v < b.v
    ELSE IF IsFin(a) THEN b.v = 1
    ELSE IF IsFin(b) THEN a.v = -1
    ELSE a.v < b.v

\* a > b
EGt(a, b) == ELt(b, a)

\* Math.min(a, b): NaN when either is NaN
JsMin(a, b) ==
    IF IsNaN(a) \/ IsNaN(b) THEN NaN ELSE IF ELt(b, a) THEN b ELSE a

\* Math.max(a, b): NaN when either is NaN
JsMax(a, b) ==
    IF IsNaN(a) \/ IsNaN(b) THEN NaN ELSE IF ELt(a, b) THEN b ELSE a

\* Math.sqrt(a * scale) for a >= 0 or infinite
ESqrt(a, scale) ==
    IF IsNaN(a) THEN NaN
    ELSE IF IsFin(a) THEN (IF a.v < 0 THEN NaN ELSE Fin(ISqrt(a.v * scale)))
    ELSE IF a.v = 1 THEN a ELSE NaN

\* ------------------------------------------------------------------------
\* Track pieces and segments (models/Track.ts, TrackViewComponent)
\* ------------------------------------------------------------------------
\* rendering pixels per metre, editor side
PX_PER_M == 10

\* the cap animate puts on dt: 0.033 s, in ms
DtCap == 33

\* pixels per metre used by the racing-line builder of Car
CAR_PX_PER_M == 3

\* The palette, lengths and radii in pixels.  A straight piece carries a
\* length, a curve piece a radius and an angle in degrees.
palette ==
    << [label |-> "Start", type |-> "start", length |-> 40],
       [label |-> "Straight 50", type |-> "straight", length |-> 50],
       [label |-> "Straight 100", type |-> "straight", length |-> 100],
       [label |-> "Curve 45", type |-> "curve45", radius |-> 60, angle |-> 45],
       [label |-> "Curve 90", type |-> "curve90", radius |-> 60, angle |-> 90],
       [label |-> "Curve 180", type |-> "curve180", radius |-> 60, angle |-> 180] >>

CurveTypes == {"curve45", "curve90", "curve180"}

\* obj.field ?? dflt for an optional field of a record
OrElse(obj, field, dflt) == IF field \in DOMAIN obj THEN obj[field] ELSE dflt

\* pixels -> metres: px / PX_PER_M
PxToM(px) == (px * LenScale) \div PX_PER_M

\* the conversion had it taken the angle for gradians (400 to the turn)
DegToRadGradians(angleDeg) == TDiv(angleDeg * Pi, 200)

\* angleDeg * Math.PI / 180
DegToRad(angleDeg) == TDiv(angleDeg * Pi, 180)

\* len * Math.cos(a) had the sine been taken for the cosine
MulCosAsSin(len, a) == RDiv(len * Sin(a), TrigScale)

\* len * Math.cos(a) and len * Math.sin(a)
MulCos(len, a) == RDiv(len * Cos(a), TrigScale)

MulSin(len, a) == RDiv(len * Sin(a), TrigScale)

\* computeEndOf on a curve, once the centre (cx, cy) is computed
CurveEnd(x0, y0, th, cx, cy, R, angleRad) ==
    LET startAngle == Atan2(y0 - cy, x0 - cx)
        endAngle == startAngle + angleRad
    IN [x |-> cx + MulCos(R, endAngle),
        y |-> cy + MulSin(R, endAngle),
        heading |-> th + angleRad]

\* TrackViewComponent.computeEndOf: the pose at the end of a segment
computeEndOf(seg) ==
    LET x0 == seg.position.x
        y0 == seg.position.y
        th == seg.heading
    IN IF seg.type \in {"start", "straight"}
       THEN LET L == OrElse(seg, "length", 0)
            IN [x |-> x0 + MulCos(L, th), y |-> y0 + MulSin(L, th), heading |-> th]
       ELSE IF seg.type \in CurveTypes
       THEN LET R == OrElse(seg, "radius", 6 * LenScale)
                angleDeg == OrElse(seg, "angle", 90)
                turnDirection == Sign(angleDeg)
            IN CurveEnd(x0, y0, th,
                        x0 - turnDirection * MulSin(R, th),
                        y0 + turnDirection * MulCos(R, th),
                        R, DegToRad(angleDeg))
       ELSE [x |-> x0, y |-> y0, heading |-> th]

\* the segment buildNextFrom creates for `piece` at the pose lastEnd
NextSegmentAt(lastEnd, piece, turnRight) ==
    LET baseHeading == lastEnd.heading
    IN IF piece.type = "straight"
       THEN [type |-> "straight",
             length |-> PxToM(OrElse(piece, "length", 100)),
             position |-> [x |-> lastEnd.x, y |-> lastEnd.y],
             heading |-> baseHeading]
       ELSE IF piece.type \in CurveTypes
       THEN LET angleDeg == OrElse(piece, "angle", 90)
                signedDeg == IF turnRight THEN -Abs(angleDeg) ELSE Abs(angleDeg)
            IN [type |-> piece.type,
                radius |-> PxToM(OrElse(piece, "radius", 60)),
                angle |-> signedDeg,
                position |-> [x |-> lastEnd.x, y |-> lastEnd.y],
                heading |-> baseHeading]
       ELSE [type |-> "straight",
             length |-> PxToM(50),
             position |-> [x |-> lastEnd.x, y |-> lastEnd.y],
             heading |-> baseHeading]

\* buildNextFrom had it chained the new segment to the start pose of `last`
\* instead of its end pose
buildNextFromStartPose(last, piece, turnRight) ==
    NextSegmentAt([x |-> last.position.x, y |-> last.position.y,
                   heading |-> last.heading], piece, turnRight)

\* TrackViewComponent.buildNextFrom: the segment that continues `last`
buildNextFrom(last, piece, turnRight) ==
    NextSegmentAt(computeEndOf(last), piece, turnRight)

\* the Start segment onDrop creates at the drop point (metres)
StartSegment(piece, dropX, dropY) ==
    [type |-> "start",
     position |-> [x |-> dropX, y |-> dropY],
     heading |-> 0,
     length |-> PxToM(OrElse(piece, "length", 40))]

\* ------------------------------------------------------------------------
\* Racing-line builder (Car)
\* ------------------------------------------------------------------------
\* Car.getSegmentLength
getSegmentLength(seg) ==
    IF seg.type \in {"straight", "start"} THEN OrElse(seg, "length", 100 * LenScale)
    ELSE IF seg.type \in CurveTypes
    THEN LET angleRad == Abs(DegToRad(OrElse(seg, "angle", 90)))
         IN (OrElse(seg, "radius", 60 * LenScale) * angleRad) \div AngScale
    ELSE 100 * LenScale

\* computeCenterPoint on a curve, once the centre (cx, cy) and the swept
\* angle turnDirection * arcFraction * |angleRad| are computed
CurvePoint(seg, cx, cy, R, swept) ==
    LET startAngle == Atan2(seg.position.y - cy, seg.position.x - cx)
        endAngle == startAngle + swept
    IN [x |-> cx + MulCos(R, endAngle),
        y |-> cy + MulSin(R, endAngle),
        heading |-> seg.heading + swept]

\* Car.computeCenterPoint: the centre-line point `distance` into a segment
computeCenterPoint(seg, distance) ==
    IF seg.type \in {"straight", "start"}
    THEN [x |-> seg.position.x + MulCos(distance, seg.heading),
          y |-> seg.position.y + MulSin(distance, seg.heading),
          heading |-> seg.heading]
    ELSE IF seg.type \in CurveTypes
    THEN LET R == OrElse(seg, "radius", 60 * LenScale)
             angleDeg == OrElse(seg, "angle", 90)
             angleRad == DegToRad(angleDeg)
             turnDirection == Sign(angleDeg)
             arcLength == (R * Abs(angleRad)) \div AngScale
             \* Math.max(arcLength, 0.001): 0.001 m is 10 length units
             arcFraction == (distance * AngScale) \div Max2(arcLength, 10)
             swept == turnDirection * ((arcFraction * Abs(angleRad)) \div AngScale)
         IN CurvePoint(seg,
                       seg.position.x - turnDirection * MulSin(R, seg.heading),
                       seg.position.y + turnDirection * MulCos(R, seg.heading),
                       R, swept)
    ELSE [x |-> seg.position.x, y |-> seg.position.y, heading |-> seg.heading]

\* Math.max(20, Math.ceil(segLength * 2))
SampleSteps(segLength) == Max2(20, CeilDiv(2 * segLength, LenScale))

\* the step added to totalS between two successive samples
SampleDistance(prevPoint, point) ==
    LET dx == RDiv(point.x - prevPoint.x, CAR_PX_PER_M)
        dy == RDiv(point.y - prevPoint.y, CAR_PX_PER_M)
    IN ISqrt(dx * dx + dy * dy)

\* the tag a sample would get had the loop stored the step rather than the
\* running total
NextTotalSReset(hasPrev, totalS, prevPoint, point) ==
    IF hasPrev THEN SampleDistance(prevPoint, point) ELSE totalS

\* totalS after sampling `point`: unchanged for the very first sample
\* (prevPoint is null exactly when nothing has been pushed yet)
NextTotalS(hasPrev, totalS, prevPoint, point) ==
    IF hasPrev THEN totalS + SampleDistance(prevPoint, point) ELSE totalS

\* one iteration of the inner loop of computeRacingLine: the point pushed
\* for `point`, given totalS and prevPoint on entry
PushSample(hasPrev, totalS, prevPoint, point) ==
    [x |-> point.x, y |-> point.y, heading |-> point.heading,
     s |-> NextTotalS(hasPrev, totalS, prevPoint, point)]

RECURSIVE SampleSegment(_, _, _, _, _, _, _, _)
\* the inner loop of computeRacingLine for i = lo..hi: the points pushed,
\* given totalS and prevPoint on entry.  The range is split in halves; the
\* second half starts from the last point of the first, which carries the
\* totalS and is the prevPoint the loop has at that iteration.
SampleSegment(seg, segLength, steps, lo, hi, hasPrev, totalS, prevPoint) ==
    IF lo > hi THEN << >>
    ELSE IF lo = hi
    THEN << PushSample(hasPrev, totalS, prevPoint,
                       computeCenterPoint(seg, (lo * segLength) \div steps)) >>
    ELSE LET mid == (lo + hi) \div 2
             first == SampleSegment(seg, segLength, steps, lo, mid,
                                    hasPrev, totalS, prevPoint)
             last == first[Len(first)]
         IN first \o SampleSegment(seg, segLength, steps, mid + 1, hi,
                                   TRUE, last.s, last)

RECURSIVE SampleTrack(_, _, _)
\* the outer loop of computeRacingLine, from segment k on; `points` holds
\* the points pushed so far, its last element being prevPoint with totalS
SampleTrack(track, k, points) ==
    IF k > Len(track) THEN points
    ELSE LET seg == track[k]
             segLength == getSegmentLength(seg)
             steps == SampleSteps(segLength)
             hasPrev == points # << >>
             prevPoint == IF hasPrev THEN points[Len(points)]
                          ELSE [x |-> 0, y |-> 0, heading |-> 0, s |-> 0]
         IN SampleTrack(track, k + 1,
                points \o SampleSegment(seg, segLength, steps, 0, steps,
                                        hasPrev, prevPoint.s, prevPoint))

\* a pass had it averaged the arc-length tags along with the positions
SmoothPassWithTags(smoothed) ==
    [i \in 1..Len(smoothed) |->
        IF i = 1 \/ i = Len(smoothed) THEN smoothed[i]
        ELSE [x |-> RDiv(smoothed[i - 1].x + 2 * smoothed[i].x + smoothed[i + 1].x, 4),
              y |-> RDiv(smoothed[i - 1].y + 2 * smoothed[i].y + smoothed[i + 1].y, 4),
              heading |-> smoothed[i].heading,
              s |-> RDiv(smoothed[i - 1].s + 2 * smoothed[i].s + smoothed[i + 1].s, 4)]]

\* one pass of Car.smoothRacingLine
SmoothPass(smoothed) ==
    [i \in 1..Len(smoothed) |->
        IF i = 1 \/ i = Len(smoothed) THEN smoothed[i]
        ELSE [x |-> RDiv(smoothed[i - 1].x + 2 * smoothed[i].x + smoothed[i + 1].x, 4),
              y |-> RDiv(smoothed[i - 1].y + 2 * smoothed[i].y + smoothed[i + 1].y, 4),
              heading |-> smoothed[i].heading,
              s |-> smoothed[i].s]]

\* Car.smoothRacingLine: two passes over the interior points
smoothRacingLine(points) ==
    IF Len(points) < 3 THEN points ELSE SmoothPass(SmoothPass(points))

\* Car.computeRacingLine
computeRacingLine(track) ==
    IF Len(track) = 0 THEN << >>
    ELSE smoothRacingLine(SampleTrack(track, 1, << >>))

\* ------------------------------------------------------------------------
\* Bounds of the model
\* ------------------------------------------------------------------------
\* the longest segment list the editor builds under the full program
MaxSegs == 2

\* the number of ticks that reach Car.update
MaxTicks == 2

\* the longest segment list the editor builds when it runs alone
MaxEditorSegs == 3

\* the points (metres, in length units) a Start piece is dropped at
DropPoints == { [x |-> 50000, y |-> 30000] }

\* the elapsed times (ms) animate passes on, already capped at DtCap: a
\* frame at 60 Hz and a late frame
Dts == {16, DtCap}

\* the values the settings panel sends, one field at a time
SettingChoices == { <<"mass", 0>>, <<"mass", 1000>> }

\* ------------------------------------------------------------------------
\* The racing lines of the tracks within the bounds
\* ------------------------------------------------------------------------
\* One more palette piece on a track, in either turn direction
Extensions(track) ==
    { Append(track, buildNextFrom(track[Len(track)], palette[i], turnRight)) :
        i \in 2..Len(palette), turnRight \in BOOLEAN }

RECURSIVE TracksOfLen(_)
\* the segment lists of n segments the editor can build
TracksOfLen(n) ==
    IF n = 1
    THEN { << StartSegment(palette[1], pt.x, pt.y) >> : pt \in DropPoints }
    ELSE UNION { Extensions(track) : track \in TracksOfLen(n - 1) }

\* every non-empty segment list the editor can build within the bounds
AllTracks == UNION { TracksOfLen(n) : n \in 1..Max2(MaxSegs, MaxEditorSegs) }

\* computeRacingLine tabulated over AllTracks, so that each line is
\* computed once rather than at every call
RacingLineTable == { << track, computeRacingLine(track) >> : track \in AllTracks }

\* a call of car.computeRacingLine(track)
BuildLine(track) ==
    IF track \in AllTracks
    THEN (CHOOSE entry \in RacingLineTable : entry[1] = track)[2]
    ELSE computeRacingLine(track)

\* ------------------------------------------------------------------------
\* Vehicle dynamics (Car)
\* ------------------------------------------------------------------------
\* Car.maxSpeed: 80 m/s, in cm/s
maxSpeed == 8000

\* the "safe speed" calculateTargetSpeed returns without a window: 20 m/s
safeSpeed == 2000

\* the floor of calculateTargetSpeed: 5 m/s
minTarget == 500

\* the speed startSimulation gives the car: 10 m/s
startSpeed == 1000

lookaheadPoints == 12

lookaheadStep == 4

\* g = 9.81 m/s^2, in cm/s^2
G100 == 981

\* rho = 1.225 kg/m^3, in g/m^3
RHO1000 == 1225

\* CarState as constructed, and as Car.update leaves it for an empty track
ZeroState ==
    [s |-> Fin(0), speed |-> Fin(0), heading |-> 0,
     position |-> [x |-> Fin(0), y |-> Fin(0)], racingLineIndex |-> 0]

\* Car.updateSpecs: the fields copied from the settings
updateSpecs(newSettings) ==
    [mass |-> newSettings.mass,
     enginePower |-> newSettings.enginePower,
     dragCoeff |-> newSettings.dragCoeff,
     frontalArea |-> newSettings.frontalArea,
     tireGrip |-> newSettings.tireGrip,
     downforce |-> newSettings.downforce]

RECURSIVE normalizeAngle(_)
\* Car.normalizeAngle
normalizeAngle(angle) ==
    IF angle > Pi THEN normalizeAngle(angle - TwoPi)
    ELSE IF angle < -Pi THEN normalizeAngle(angle + TwoPi)
    ELSE angle

\* Car.distanceBetween
distanceBetween(p1, p2) ==
    LET dx == p2.x - p1.x
        dy == p2.y - p1.y
    IN ISqrt(dx * dx + dy * dy)

\* mass * g + downforce, in dN
NormalForce(specs) == (specs.mass * G100) \div 10 + specs.downforce * 10

\* iteration i of the look-ahead loop of calculateTargetSpeed: the speed
\* ceiling it takes the minimum with.  An iteration the loop does not run
\* (break) or skips (continue) leaves the minimum as it is, as +Infinity
\* does.
Ceiling(specs, line, currentIdx, i) ==
    LET lookaheadIdx == currentIdx + i * lookaheadStep
    IN IF lookaheadIdx >= Len(line) - 1 THEN Inf(1)
       ELSE LET p1 == line[lookaheadIdx + 1]
                p2 == line[lookaheadIdx + 2]
                headingChange == Abs(normalizeAngle(p2.heading - p1.heading))
                distance == distanceBetween(p1, p2)
            IN \* distance < 0.01
               IF distance < LenScale \div 100 THEN Inf(1)
               ELSE LET \* rad/m, scaled by AngScale
                        curvature == (headingChange * LenScale) \div distance
                        \* tireGrip * normalForce / mass, in cm/s^2
                        maxLatAcc == EDiv(Fin(specs.tireGrip * NormalForce(specs)),
                                          1, specs.mass)
                    IN \* sqrt(maxLatAcc / max(curvature, 0.0001)), in cm/s
                       ESqrt(EDiv(maxLatAcc, 1000000, Max2(curvature, 1)), 1)

\* the indices (from 0) of the racing-line elements the look-ahead loop of
\* calculateTargetSpeed reads from the hint currentIdx: p1 and p2 of every
\* iteration before the break; none when the function returns early
LookaheadReads(line, currentIdx) ==
    IF currentIdx >= Len(line) - 1 \/ Len(line) < 2 THEN {}
    ELSE UNION { { currentIdx + i * lookaheadStep,
                   currentIdx + i * lookaheadStep + 1 } :
                 i \in { j \in 0..(lookaheadPoints - 1) :
                            currentIdx + j * lookaheadStep < Len(line) - 1 } }

RECURSIVE TargetScan(_, _, _, _, _)
\* the look-ahead loop of calculateTargetSpeed over iterations lo..hi: the
\* minimum of their ceilings.  Math.min is associative and commutative
\* (NaN absorbs), so the range is split in halves.
TargetScan(specs, line, currentIdx, lo, hi) ==
    IF lo = hi THEN Ceiling(specs, line, currentIdx, lo)
    ELSE JsMin(TargetScan(specs, line, currentIdx, lo, (lo + hi) \div 2),
               TargetScan(specs, line, currentIdx, (lo + hi) \div 2 + 1, hi))

\* Car.calculateTargetSpeed, in cm/s
calculateTargetSpeed(specs, state, line) ==
    LET currentIdx == state.racingLineIndex
    IN IF currentIdx >= Len(line) - 1 \/ Len(line) < 2 THEN Fin(safeSpeed)
       ELSE JsMax(JsMin(Fin(maxSpeed),
                        TargetScan(specs, line, currentIdx, 0, lookaheadPoints - 1)),
                  Fin(minTarget))

\* the decision had the brake branch kept a holding throttle
ControlHoldingWhileBraking(v, targetSpeed) ==
    LET margin == EScale(targetSpeed, 1, 10)
    IN IF ELt(v, ESub(targetSpeed, margin)) THEN [throttle |-> 10, brake |-> 0]
       ELSE IF EGt(v, EAdd(targetSpeed, margin)) THEN [throttle |-> 3, brake |-> 10]
       ELSE [throttle |-> 3, brake |-> 0]

\* the throttle / brake decision of Car.update, throttle and brake in tenths
Control(v, targetSpeed) ==
    LET margin == EScale(targetSpeed, 1, 10)
    IN IF ELt(v, ESub(targetSpeed, margin)) THEN [throttle |-> 10, brake |-> 0]
       ELSE IF EGt(v, EAdd(targetSpeed, margin)) THEN [throttle |-> 0, brake |-> 10]
       ELSE [throttle |-> 3, brake |-> 0]

\* 0.5 * rho * dragCoeff * frontalArea * v * v, in dN (v finite, cm/s)
DragForce(specs, v) ==
    LET coef == (RHO1000 * specs.dragCoeff * specs.frontalArea) \div 1000
        v2 == (v * v) \div 100
    IN (coef * v2) \div 20000

\* tireGrip * normalForce, in dN
MaxTractionForce(specs) == (specs.tireGrip * NormalForce(specs)) \div 10

\* the engine force of Car.update, limited by traction, in dN
EngineForce(specs, control) ==
    IF control.throttle > 0
    THEN Min2(control.throttle * specs.enginePower * 500, MaxTractionForce(specs))
    ELSE 0

\* the brake force of Car.update, in dN
BrakeForce(specs, control) ==
    IF control.brake > 0
    THEN (control.brake * MaxTractionForce(specs)) \div 10
    ELSE 0

\* the speed Car.update stores: v + acceleration * dt clamped to [0, maxSpeed]
NewSpeed(specs, v, control, dt) ==
    LET normalForce == NormalForce(specs)
        dragForce == IF IsFin(v) THEN Fin(DragForce(specs, v.v)) ELSE NaN
        rollingResistance == (2 * normalForce) \div 100
        engineForce == EngineForce(specs, control)
        brakeForce == BrakeForce(specs, control)
        netForce == ESub(ESub(ESub(Fin(engineForce), dragForce),
                              Fin(rollingResistance)), Fin(brakeForce))
        \* netForce / mass, in cm/s^2
        acceleration == EDiv(netForce, 10, specs.mass)
        v1 == EAdd(v, EScale(acceleration, dt, 1000))
    IN JsMax(Fin(0), JsMin(v1, Fin(maxSpeed)))

\* the condition of the while loop of interpolatePosition at index i
Advances(points, s, i) == i < Len(points) - 1 /\ ELt(Fin(points[i + 2].s), s)

\* the forward search of interpolatePosition: the first index from i0 on
\* at which the while loop stops
AdvanceIndex(points, s, i0) ==
    CHOOSE i \in i0..Max2(i0, Len(points) - 1) :
        /\ ~Advances(points, s, i)
        /\ \A j \in i0..(i - 1) : Advances(points, s, j)

\* a1 + t * (a2 - a1) with t = (s - s1) / (s2 - s1); for s2 = s1 the
\* quotient t is NaN or +-Infinity
Lerp(s, s1, s2, a1, a2) ==
    LET num == ESub(s, Fin(s1))
    IN IF s2 # s1
       THEN EAdd(Fin(a1), EDiv(EScale(num, a2 - a1, 1), 1, s2 - s1))
       ELSE EAdd(Fin(a1), EScale(EDiv(num, 1, 0), a2 - a1, 1))

\* interpolatePosition once the index i is found
InterpolateAt(state, s, points, i) ==
    LET indexed == [state EXCEPT !.racingLineIndex = i]
    IN IF i < 0 \/ i + 2 > Len(points)
       THEN [state |-> indexed, threw |-> TRUE]
       ELSE LET p1 == points[i + 1]
                p2 == points[i + 2]
            IN [state |-> indexed, threw |-> FALSE,
                x |-> Lerp(s, p1.s, p2.s, p1.x, p2.x),
                y |-> Lerp(s, p1.s, p2.s, p1.y, p2.y),
                heading |-> Atan2(p2.y - p1.y, p2.x - p1.x)]

\* Car.interpolatePosition: stores the advanced index; throws when the
\* pair (i, i + 1) runs past the end of the line (p2 is undefined)
interpolatePosition(state, s, points) ==
    InterpolateAt(state, s, points, AdvanceIndex(points, s, state.racingLineIndex))

\* s % totalLength for s > totalLength >= 0
JsMod(s, totalLength) ==
    IF totalLength = 0 \/ ~IsFin(s) THEN NaN ELSE Fin(s.v % totalLength)

\* the looping step had it let s run on past the end of the line
LoopingWithoutWrap(state, s1, totalLength) == [state EXCEPT !.s = s1]

\* the looping step had it left the index hint where it was
LoopingKeepingIndex(state, s1, totalLength) ==
    IF EGt(s1, Fin(totalLength))
    THEN [state EXCEPT !.s = JsMod(s1, totalLength)]
    ELSE [state EXCEPT !.s = s1]

\* the looping step of moveAlongRacingLine on s1 = state.s + v * dt
Looping(state, s1, totalLength) ==
    IF EGt(s1, Fin(totalLength))
    THEN [state EXCEPT !.s = JsMod(s1, totalLength), !.racingLineIndex = 0]
    ELSE [state EXCEPT !.s = s1]

\* the assignments of moveAlongRacingLine from the interpolated pos
Place(pos) ==
    IF pos.threw THEN [state |-> pos.state, threw |-> TRUE]
    ELSE [state |-> [pos.state EXCEPT !.position = [x |-> pos.x, y |-> pos.y],
                                      !.heading = pos.heading],
          threw |-> FALSE]

\* moveAlongRacingLine after the looping step
PlaceOn(state, line) == Place(interpolatePosition(state, state.s, line))

\* Car.moveAlongRacingLine
moveAlongRacingLine(state, line, v, dt) ==
    IF Len(line) < 2 THEN [state |-> state, threw |-> FALSE]
    ELSE PlaceOn(Looping(state, EAdd(state.s, EScale(v, dt, 10)),
                         line[Len(line)].s),
                 line)

\* the move had it taken the first point off the line it was given
MoveConsuming(state, line, v, dt) ==
    [state |-> moveAlongRacingLine([state EXCEPT !.speed = v], line, v, dt).state,
     line |-> Tail(line),
     threw |-> moveAlongRacingLine([state EXCEPT !.speed = v], line, v, dt).threw]

\* Car.update from "this.state.speed = v" on
Move(state, line, v, dt) ==
    LET moved == moveAlongRacingLine([state EXCEPT !.speed = v], line, v, dt)
    IN [state |-> moved.state, line |-> line, threw |-> moved.threw]

\* Car.update once the racing line is in place: the new speed v is
\* computed, then the car is moved with it
Drive(specs, state, line, dt) ==
    IF Len(line) = 0 THEN [state |-> state, line |-> line, threw |-> FALSE]
    ELSE CHOOSE r \in
             { Move(state, line, v, dt) :
                 v \in { NewSpeed(specs, state.speed,
                                  Control(state.speed,
                                          calculateTargetSpeed(specs, state, line)),
                                  dt) } } : TRUE

\* Car.update had the rebuild left s and the index hint as they were
updateKeepingS(specs, state, line, dt, track) ==
    IF Len(track) = 0
    THEN [state |-> ZeroState, line |-> << >>, threw |-> FALSE]
    ELSE IF Len(line) = 0
    THEN Drive(specs, state, BuildLine(track), dt)
    ELSE Drive(specs, state, line, dt)

\* Car.update: the car's state and racing line after a tick, and whether
\* the tick threw
update(specs, state, line, dt, track) ==
    IF Len(track) = 0
    THEN [state |-> ZeroState, line |-> << >>, threw |-> FALSE]
    ELSE IF Len(line) = 0
    THEN Drive(specs, [state EXCEPT !.s = Fin(0), !.racingLineIndex = 0],
               BuildLine(track), dt)
    ELSE Drive(specs, state, line, dt)

\* ------------------------------------------------------------------------
\* State
\* ------------------------------------------------------------------------
VARIABLES
    segments,           \* TrackViewComponent.segments
    racingLine,         \* TrackViewComponent.racingLine
    isSimulating,       \* TrackViewComponent.isSimulating
    previewTurnRight,   \* TrackViewComponent.previewTurnRight
    settings,           \* CarSettingsService: the current settings value
    carSpecs,           \* Car: mass, enginePower, ... as set by updateSpecs
    carState,           \* Car.state
    currentRacingLine,  \* Car.currentRacingLine
    ticks,              \* how many ticks have reached Car.update
    lastOp,             \* the operation that produced this state
    pureCall,           \* a call of one function on its own: the function,
                        \* its arguments and, once it has returned, its result
    pendingFrames       \* the animate callbacks requestAnimationFrame holds

vars == << segments, racingLine, isSimulating, previewTurnRight, settings,
           carSpecs, carState, currentRacingLine, ticks, lastOp, pureCall, pendingFrames >>

\* no function is called on its own while the program runs
NoCall == [fn |-> "none"]

\* CarSettingsService: the initial settings (dragCoeff in 1/100,
\* frontalArea, tireGrip, finalDrive and wheelbase in 1/10)
InitialSettings ==
    [mass |-> 1000, enginePower |-> 100, dragCoeff |-> 30, frontalArea |-> 22,
     tireGrip |-> 8, downforce |-> 0, finalDrive |-> 35, wheelbase |-> 25]

\* The component after ngAfterViewInit: the car is constructed and the
\* settings subscription has delivered the current settings once.
Init ==
    /\ segments = << >>
    /\ racingLine = << >>
    /\ isSimulating = FALSE
    /\ previewTurnRight = FALSE
    /\ settings = InitialSettings
    /\ carSpecs = updateSpecs(InitialSettings)
    /\ carState = ZeroState
    /\ currentRacingLine = << >>
    /\ ticks = 0
    /\ lastOp = "init"
    /\ pureCall = NoCall
    /\ pendingFrames = 1

\* updateRacingLine had the builder left out the points behind the car's
\* index hint
updateRacingLineFromHint(segs) ==
    IF Len(segs) = 0 THEN << >>
    ELSE SubSeq(BuildLine(segs), carState.racingLineIndex + 1, Len(BuildLine(segs)))

\* TrackViewComponent.updateRacingLine (the car always exists after Init)
updateRacingLine(segs) ==
    IF Len(segs) > 0 THEN BuildLine(segs) ELSE << >>

\* the type of a segment object that has none
Undefined == "undefined"

\* seg.type.startsWith('curve') throws a TypeError when seg.type is neither
\* 'straight' nor 'start' and is not a string
TypeReadThrows(seg) == seg.type = Undefined

\* Car.computeRacingLine throws: its loop calls getSegmentLength on every
\* segment in turn
computeRacingLineThrows(track) ==
    \E k \in 1..Len(track) : TypeReadThrows(track[k])

\* Math.max(5, Math.ceil(segLength / 2))
FallbackSteps(segLength) == Max2(5, CeilDiv(segLength, 2 * LenScale))

\* the inner loop of generateFallbackRacingLine: the points pushed for one
\* segment.  The component's getSegmentLength and computeCenterPoint are
\* the same code as Car's.
FallbackSegment(seg, segLength, steps) ==
    [i \in 1..(steps + 1) |->
        computeCenterPoint(seg, ((i - 1) * segLength) \div steps)]

RECURSIVE FallbackTrack(_, _)
\* the outer loop of generateFallbackRacingLine, from segment k on
FallbackTrack(segs, k) ==
    IF k > Len(segs) THEN << >>
    ELSE FallbackSegment(segs[k], getSegmentLength(segs[k]),
                         FallbackSteps(getSegmentLength(segs[k])))
             \o FallbackTrack(segs, k + 1)

\* TrackViewComponent.generateFallbackRacingLine, when it returns
generateFallbackRacingLine(segs) == FallbackTrack(segs, 1)

\* generateFallbackRacingLine throws: its loop calls the component's
\* getSegmentLength on every segment in turn
generateFallbackThrows(segs) ==
    \E k \in 1..Len(segs) : TypeReadThrows(segs[k])

\* TrackViewComponent.updateRacingLine with its try / catch: the racing
\* line it leaves, oldLine being the one it found, and whether an
\* exception left it
TryUpdateRacingLine(segs, oldLine) ==
    IF Len(segs) > 0
    THEN IF ~computeRacingLineThrows(segs)
         THEN [rline |-> BuildLine(segs), threw |-> FALSE]
         ELSE IF ~generateFallbackThrows(segs)
         THEN [rline |-> generateFallbackRacingLine(segs), threw |-> FALSE]
         ELSE [rline |-> oldLine, threw |-> TRUE]
    ELSE [rline |-> << >>, threw |-> FALSE]

\* {...racingLine[0]}: the copy of a racing-line point stored as position
PointCopy(p) == [x |-> Fin(p.x), y |-> Fin(p.y), heading |-> p.heading, s |-> p.s]

\* the precondition checks had they asked for one segment only
StartGuardOneSegment(segs) == Len(segs) >= 1 /\ segs[1].type = "start"

\* the precondition checks of startSimulation on the segment list
StartGuard(segs) == Len(segs) >= 2 /\ segs[1].type = "start"

\* the car state startSimulation writes
StartState(state, line) ==
    [state EXCEPT !.position = PointCopy(line[1]),
                  !.heading = line[1].heading,
                  !.speed = Fin(startSpeed),
                  !.racingLineIndex = 0]

\* the car state resetSimulation writes
ResetState(state, line) ==
    IF Len(line) > 0
    THEN [state EXCEPT !.position = PointCopy(line[1]),
                       !.heading = line[1].heading,
                       !.speed = Fin(0),
                       !.racingLineIndex = 0]
    ELSE state

\* the index guard of animate after a tick that did not throw
BoundsGuard(state, line) ==
    IF state.racingLineIndex < 0 \/ state.racingLineIndex >= Len(line)
    THEN [state EXCEPT !.racingLineIndex = 0]
    ELSE state

\* ------------------------------------------------------------------------
\* Operations
\* ------------------------------------------------------------------------
\* a Start drop had it appended the Start segment instead of replacing the
\* list
DropStartAppends(pt) ==
    /\ segments' = Append(segments, StartSegment(palette[1], pt.x, pt.y))
    /\ racingLine' = updateRacingLine(segments')
    /\ lastOp' = "dropStart"
    /\ UNCHANGED << isSimulating, previewTurnRight, settings, carSpecs,
                    carState, currentRacingLine, ticks, pureCall, pendingFrames >>

\* onDragStart of the Start piece followed by onDrop at point pt
DropStart(pt) ==
    /\ segments' = << StartSegment(palette[1], pt.x, pt.y) >>
    /\ racingLine' = updateRacingLine(segments')
    /\ lastOp' = "dropStart"
    /\ UNCHANGED << isSimulating, previewTurnRight, settings, carSpecs,
                    carState, currentRacingLine, ticks, pureCall, pendingFrames >>

\* onDragStart of a non-Start piece followed by onDrop, on a list kept
\* within maxLen segments
AppendPiece(piece, maxLen) ==
    /\ piece.type # "start"
    /\ IF Len(segments) = 0 \/ segments[1].type # "start"
       THEN /\ lastOp' = "dropRejected"
            /\ UNCHANGED << segments, racingLine >>
       ELSE /\ Len(segments) < maxLen
            /\ segments' = Append(segments,
                   buildNextFrom(segments[Len(segments)], piece, previewTurnRight))
            /\ racingLine' = updateRacingLine(segments')
            /\ lastOp' = "dropPiece"
    /\ UNCHANGED << isSimulating, previewTurnRight, settings, carSpecs,
                    carState, currentRacingLine, ticks, pureCall, pendingFrames >>

\* a non-Start drop under the full program
DropPiece(piece) == AppendPiece(piece, MaxSegs)

\* a non-Start drop when the editor runs alone
EditorDropPiece(piece) == AppendPiece(piece, MaxEditorSegs)

\* toggleTurnDirection
ToggleTurnDirection ==
    /\ previewTurnRight' = ~previewTurnRight
    /\ lastOp' = "toggle"
    /\ UNCHANGED << segments, racingLine, isSimulating, settings, carSpecs,
                    carState, currentRacingLine, ticks, pureCall, pendingFrames >>

\* startSimulation
StartSimulation ==
    IF ~StartGuard(segments)
    THEN /\ lastOp' = "startRejected"
         /\ UNCHANGED << segments, racingLine, isSimulating, previewTurnRight,
                         settings, carSpecs, carState, currentRacingLine, ticks, pureCall, pendingFrames >>
    ELSE /\ racingLine' = updateRacingLine(segments)
         /\ IF Len(racingLine') < 2
            THEN /\ lastOp' = "startRejected"
                 /\ UNCHANGED << carState, isSimulating >>
            ELSE /\ carState' = StartState(carState, racingLine')
                 /\ isSimulating' = TRUE
                 /\ lastOp' = "start"
         /\ UNCHANGED << segments, previewTurnRight, settings, carSpecs,
                         currentRacingLine, ticks, pureCall, pendingFrames >>

\* stopSimulation
StopSimulation ==
    /\ isSimulating' = FALSE
    /\ lastOp' = "stop"
    /\ UNCHANGED << segments, racingLine, previewTurnRight, settings, carSpecs,
                    carState, currentRacingLine, ticks, pureCall, pendingFrames >>

\* resetSimulation
ResetSimulation ==
    /\ isSimulating' = FALSE
    /\ carState' = ResetState(carState, racingLine)
    /\ lastOp' = "reset"
    /\ UNCHANGED << segments, racingLine, previewTurnRight, settings, carSpecs,
                    currentRacingLine, ticks, pureCall, pendingFrames >>

\* clearTrack
ClearTrack ==
    /\ segments' = << >>
    /\ racingLine' = << >>
    /\ isSimulating' = FALSE
    /\ lastOp' = "clear"
    /\ UNCHANGED << previewTurnRight, settings, carSpecs, carState,
                    currentRacingLine, ticks, pureCall, pendingFrames >>

\* the catch block had it left the index hint as the failed call left it
CaughtKeepingHint(r, rline) ==
    IF r.threw THEN r.state ELSE BoundsGuard(r.state, rline)

\* the car state the try / catch of animate leaves, r being what
\* car.update did and rline the component's racing line
Caught(r, rline) ==
    IF r.threw
    THEN [r.state EXCEPT !.racingLineIndex = 0]
    ELSE BoundsGuard(r.state, rline)

\* the try / catch of animate around car.update, r being what the call did
Tick(r) ==
    /\ carState' = Caught(r, racingLine)
    /\ currentRacingLine' = r.line
    /\ lastOp' = IF r.threw THEN "tickThrew" ELSE "tick"

\* the body of animate once the browser has taken the callback off its
\* list: car.update inside try / catch when the conditions hold, within
\* maxTicks ticks, and the request for the next frame
AnimateBody(dt, maxTicks, simulating) ==
    /\ IF simulating /\ Len(segments) > 0 /\ Len(racingLine) > 1
       THEN /\ ticks < maxTicks
            /\ Tick(update(carSpecs, carState, currentRacingLine, dt, segments))
            /\ ticks' = ticks + 1
       ELSE /\ lastOp' = "tickIdle"
            /\ UNCHANGED << carState, currentRacingLine, ticks >>
    /\ pendingFrames' = (pendingFrames - 1) + 1
    /\ UNCHANGED << segments, racingLine, isSimulating, previewTurnRight,
                    settings, carSpecs, pureCall >>

\* animate had it not looked at isSimulating
AnimateAnyMode(dt) ==
    /\ pendingFrames > 0
    /\ AnimateBody(dt, MaxTicks, TRUE)

\* animate: one animation frame with elapsed time dt, the callback being
\* one the browser holds
Animate(dt) ==
    /\ pendingFrames > 0
    /\ AnimateBody(dt, MaxTicks, isSimulating)

\* CarSettingsService.updateSettings with one field, and the subscriber of
\* TrackViewComponent that it triggers
SettingsUpdate(choice) ==
    /\ settings' = [settings EXCEPT ![choice[1]] = choice[2]]
    /\ carSpecs' = updateSpecs(settings')
    /\ racingLine' = updateRacingLine(segments)
    /\ lastOp' = "settings"
    /\ UNCHANGED << segments, isSimulating, previewTurnRight, carState,
                    currentRacingLine, ticks, pureCall, pendingFrames >>

Next ==
    \/ \E pt \in DropPoints : DropStart(pt)
    \/ \E i \in 2..Len(palette) : DropPiece(palette[i])
    \/ ToggleTurnDirection
    \/ StartSimulation
    \/ StopSimulation
    \/ ResetSimulation
    \/ ClearTrack
    \/ \E dt \in Dts : Animate(dt)
    \/ \E choice \in SettingChoices : SettingsUpdate(choice)

Spec == Init /\ [][Next]_vars

\* The editor alone: drops, the turn-direction toggle and clear, with no
\* simulation command and no tick
EditorNext ==
    \/ \E pt \in DropPoints : DropStart(pt)
    \/ \E i \in 2..Len(palette) : EditorDropPiece(palette[i])
    \/ ToggleTurnDirection
    \/ ClearTrack

EditorSpec == Init /\ [][EditorNext]_vars

\* The simulation over a lap: the track is laid, the simulation started or
\* reset, and frames of the capped length follow one another for up to
\* MaxLapTicks ticks, long enough for the car to pass the end of the
\* shortest racing line
MaxLapTicks == 12

\* animate with the elapsed time at its cap of 0.033 s
LapAnimate ==
    /\ pendingFrames > 0
    /\ AnimateBody(DtCap, MaxLapTicks, isSimulating)

LapNext ==
    \/ \E pt \in DropPoints : DropStart(pt)
    \/ \E i \in 2..Len(palette) : DropPiece(palette[i])
    \/ StartSimulation
    \/ ResetSimulation
    \/ LapAnimate

LapSpec == Init /\ [][LapNext]_vars

\* ------------------------------------------------------------------------
\* The component whose Car walks the segment list itself (part_001, with
\* the Car of models/Car.ts): lengths in 1/1000 pixel, speed in 1/1000
\* pixel per second
\* ------------------------------------------------------------------------
\* length units per pixel
PxScale == 1000

\* the palette of this component
pxPalette ==
    << [label |-> "Start", type |-> "start", length |-> 40],
       [label |-> "Straight 100", type |-> "straight", length |-> 100],
       [label |-> "Curve 45", type |-> "curve45", radius |-> 60, angle |-> 45],
       [label |-> "Curve 90", type |-> "curve90", radius |-> 60, angle |-> 90],
       [label |-> "Curve 180", type |-> "curve180", radius |-> 60, angle |-> 180] >>

\* Number(type.replace('curve', ''))
AngleOfType(type) ==
    IF type = "curve45" THEN 45 ELSE IF type = "curve90" THEN 90 ELSE 180

\* computeEndOf of this component: a Start has zero length
computeEndOfPx(seg) ==
    LET x0 == seg.position.x
        y0 == seg.position.y
        th == seg.heading
    IN IF seg.type = "start"
       THEN [x |-> x0, y |-> y0, heading |-> th]
       ELSE IF seg.type = "straight"
       THEN LET L == OrElse(seg, "length", 0)
            IN [x |-> x0 + MulCos(L, th), y |-> y0 + MulSin(L, th), heading |-> th]
       ELSE IF seg.type \in CurveTypes
       THEN LET R == OrElse(seg, "radius", 60 * PxScale)
                angleRad == DegToRad(OrElse(seg, "angle", AngleOfType(seg.type)))
                sign == IF Sign(angleRad) = 0 THEN 1 ELSE Sign(angleRad)
            IN CurveEnd(x0, y0, th,
                        x0 - sign * MulSin(R, th),
                        y0 + sign * MulCos(R, th),
                        R, angleRad)
       ELSE [x |-> x0, y |-> y0, heading |-> th]

\* buildNextFrom of this component
buildNextFromPx(last, piece, turnRight) ==
    LET lastEnd == computeEndOfPx(last)
    IN IF piece.type = "straight"
       THEN [type |-> "straight",
             length |-> PxScale * OrElse(piece, "length", 100),
             position |-> [x |-> lastEnd.x, y |-> lastEnd.y],
             heading |-> lastEnd.heading]
       ELSE IF piece.type \in CurveTypes
       THEN LET angleDeg == OrElse(piece, "angle", AngleOfType(piece.type))
            IN [type |-> piece.type,
                radius |-> PxScale * OrElse(piece, "radius", 60),
                angle |-> IF turnRight THEN -Abs(angleDeg) ELSE Abs(angleDeg),
                position |-> [x |-> lastEnd.x, y |-> lastEnd.y],
                heading |-> lastEnd.heading]
       ELSE [type |-> "straight",
             length |-> PxScale * 50,
             position |-> [x |-> lastEnd.x, y |-> lastEnd.y],
             heading |-> lastEnd.heading]

\* the fields of the Car of this component (dragCoeff in 1/100, frontalArea
\* and tireGrip in 1/10)
TrackCarSpecs ==
    [mass |-> 1000, enginePower |-> 100, dragCoeff |-> 30, frontalArea |-> 22,
     tireGrip |-> 8, downforce |-> 0]

\* Car.state as constructed
TrackCarState ==
    [segmentIndex |-> 0, distanceAlongSegment |-> 0, speed |-> 0, heading |-> 0,
     position |-> [x |-> 0, y |-> 0]]

\* Car.getSegmentLength of models/Car.ts: a Start has length 0
getSegmentLengthOnTrack(seg) ==
    IF seg.type = "straight" THEN OrElse(seg, "length", 100 * PxScale)
    ELSE IF seg.type \in CurveTypes
    THEN (OrElse(seg, "radius", 60 * PxScale) * Abs(DegToRad(OrElse(seg, "angle", 90))))
             \div AngScale
    ELSE 0

\* Car.computePositionOnSegment: every segment that is not a straight, a
\* Start included, is taken for an arc
computePositionOnSegment(seg, dist) ==
    IF seg.type = "straight"
    THEN [x |-> seg.position.x + MulCos(dist, seg.heading),
          y |-> seg.position.y + MulSin(dist, seg.heading),
          heading |-> seg.heading]
    ELSE LET R == OrElse(seg, "radius", 60 * PxScale)
             angleRad == DegToRad(OrElse(seg, "angle", 90))
             sign == Sign(angleRad)
             arcLength == (R * Abs(angleRad)) \div AngScale
             \* arcFrac in 1/1000, then arcFrac * angleRad
             arcFrac == RDiv(dist * 1000, arcLength)
             swept == TDiv(arcFrac * angleRad, 1000)
         IN CurvePoint(seg,
                       seg.position.x - sign * MulSin(R, seg.heading),
                       seg.position.y + sign * MulCos(R, seg.heading),
                       R, swept)

\* the speed Car.update of models/Car.ts computes: traction is the smaller
\* of engine force and tire force, drag is subtracted, forces in dN
SpeedOnTrack(specs, v, dt) ==
    LET engineForce == (specs.enginePower * 10000 * PxScale) \div Max2(v, PxScale)
        coef == (RHO1000 * specs.dragCoeff * specs.frontalArea) \div 1000
        dragForce == (coef * (v \div 100) * (v \div 100)) \div 20000
        normalForce == (specs.mass * G100) \div 10 + specs.downforce * 10
        tireForce == (specs.tireGrip * normalForce) \div 10
        netForce == Min2(engineForce, tireForce) - dragForce
    IN Max2(0, v + TDiv(netForce * dt, 10 * specs.mass))

RECURSIVE MoveAlongTrack(_, _, _, _, _)
\* The loop `while (remaining > 0)` of Car.update.  `seen` holds the values
\* (segmentIndex, distanceAlongSegment, remaining) had at the top of the
\* iterations so far: the loop is deterministic, so an iteration that
\* starts from values seen before repeats for ever.  Reading the type of
\* track[segmentIndex] throws when the index is past the list.
MoveAlongTrack(track, segmentIndex, distanceAlongSegment, remaining, seen) ==
    IF remaining <= 0
    THEN [outcome |-> "left", segmentIndex |-> segmentIndex,
          distanceAlongSegment |-> distanceAlongSegment]
    ELSE IF segmentIndex >= Len(track)
    THEN [outcome |-> "threw", segmentIndex |-> segmentIndex,
          distanceAlongSegment |-> distanceAlongSegment]
    ELSE IF << segmentIndex, distanceAlongSegment, remaining >> \in seen
    THEN [outcome |-> "repeats", segmentIndex |-> segmentIndex,
          distanceAlongSegment |-> distanceAlongSegment]
    ELSE LET leftInSeg == getSegmentLengthOnTrack(track[segmentIndex + 1])
                              - distanceAlongSegment
         IN IF remaining < leftInSeg
            THEN MoveAlongTrack(track, segmentIndex,
                                distanceAlongSegment + remaining, 0, seen)
            ELSE MoveAlongTrack(track, (segmentIndex + 1) % Len(track), 0,
                                remaining - leftInSeg,
                                seen \cup { << segmentIndex, distanceAlongSegment,
                                               remaining >> })

\* Car.update of models/Car.ts (dt in ms): what the call did ("returned",
\* "threw", or "loops" when the loop never ends) and the state it left
updateOnTrack(specs, state, dt, track) ==
    IF Len(track) = 0
    THEN [outcome |-> "returned", state |-> state]
    ELSE LET speed == SpeedOnTrack(specs, state.speed, dt)
             moved == MoveAlongTrack(track, state.segmentIndex,
                                     state.distanceAlongSegment,
                                     (speed * dt) \div 1000, {})
             walked == [state EXCEPT !.speed = speed,
                                     !.segmentIndex = moved.segmentIndex,
                                     !.distanceAlongSegment = moved.distanceAlongSegment]
         IN IF moved.outcome = "repeats"
            THEN [outcome |-> "loops", state |-> walked]
            ELSE IF moved.outcome = "threw" \/ moved.segmentIndex >= Len(track)
            THEN [outcome |-> "threw", state |-> walked]
            ELSE LET interp == computePositionOnSegment(
                                   track[moved.segmentIndex + 1],
                                   moved.distanceAlongSegment)
                 IN [outcome |-> "returned",
                     state |-> [walked EXCEPT !.position = [x |-> interp.x, y |-> interp.y],
                                              !.heading = interp.heading]]

\* the most animate callbacks the browser is let hold
MaxPending == 3

\* the longest segment list of this component
MaxPxSegs == 2

\* the most calls of Car.update in a run of this component
MaxTrackTicks == 3

\* the drop point, in 1/1000 pixel
PxDropPoints == { [x |-> 500 * PxScale, y |-> 300 * PxScale] }

\* the time between the last callback and this one, in ms: 0 when a
\* callback of the same frame ran before
FrameGaps == {0, 16, 33}

\* the script thread is inside a call that never returns: no handler and
\* no callback runs again
Hung == lastOp = "updateNeverReturns"

\* the component of part_001 after ngAfterViewInit, which requests the
\* first frame
PxInit ==
    /\ segments = << >>
    /\ racingLine = << >>
    /\ isSimulating = FALSE
    /\ previewTurnRight = FALSE
    /\ settings = InitialSettings
    /\ carSpecs = TrackCarSpecs
    /\ carState = TrackCarState
    /\ currentRacingLine = << >>
    /\ ticks = 0
    /\ lastOp = "init"
    /\ pureCall = NoCall
    /\ pendingFrames = 1

\* onDragStart of the Start piece followed by onDrop at pt: a new track
PxDropStart(pt) ==
    /\ ~Hung
    /\ segments' = << [type |-> "start",
                       position |-> [x |-> pt.x, y |-> pt.y],
                       heading |-> 0,
                       length |-> PxScale * pxPalette[1].length] >>
    /\ lastOp' = "dropStart"
    /\ UNCHANGED << racingLine, isSimulating, previewTurnRight, settings, carSpecs,
                    carState, currentRacingLine, ticks, pureCall, pendingFrames >>

\* onDragStart of a non-Start piece followed by onDrop
PxDropPiece(piece) ==
    /\ ~Hung
    /\ piece.type # "start"
    /\ IF Len(segments) = 0 \/ segments[1].type # "start"
       THEN /\ lastOp' = "dropRejected"
            /\ UNCHANGED segments
       ELSE /\ Len(segments) < MaxPxSegs
            /\ segments' = Append(segments,
                   buildNextFromPx(segments[Len(segments)], piece, previewTurnRight))
            /\ lastOp' = "dropPiece"
    /\ UNCHANGED << racingLine, isSimulating, previewTurnRight, settings, carSpecs,
                    carState, currentRacingLine, ticks, pureCall, pendingFrames >>

\* the keydown listener: the key r flips the turn direction
PxKeyR ==
    /\ ~Hung
    /\ previewTurnRight' = ~previewTurnRight
    /\ lastOp' = "toggle"
    /\ UNCHANGED << segments, racingLine, isSimulating, settings, carSpecs,
                    carState, currentRacingLine, ticks, pureCall, pendingFrames >>

\* startSimulation of part_001: a new Car at the Start, and a request for
\* a frame
PxStartSimulation ==
    /\ ~Hung
    /\ IF Len(segments) < 2 \/ segments[1].type # "start"
       THEN /\ lastOp' = "startRejected"
            /\ UNCHANGED << carState, isSimulating, pendingFrames >>
       ELSE /\ pendingFrames < MaxPending
            /\ carState' = [TrackCarState EXCEPT !.position = segments[1].position,
                                                 !.heading = segments[1].heading]
            /\ isSimulating' = TRUE
            /\ pendingFrames' = pendingFrames + 1
            /\ lastOp' = "start"
    /\ UNCHANGED << segments, racingLine, previewTurnRight, settings, carSpecs,
                    currentRacingLine, ticks, pureCall >>

\* what animate of part_001 does with the outcome r of car.update: no
\* try / catch, so an exception leaves animate before the next request
PxTick(r) ==
    /\ carState' = r.state
    /\ lastOp' = IF r.outcome = "returned" THEN "tick"
                 ELSE IF r.outcome = "threw" THEN "tickThrew"
                 ELSE "updateNeverReturns"
    /\ pendingFrames' = IF r.outcome = "returned"
                        THEN (pendingFrames - 1) + 1
                        ELSE pendingFrames - 1

\* animate of part_001: one callback the browser holds, dt being the time
\* since the last one
PxAnimate(dt) ==
    /\ ~Hung
    /\ pendingFrames > 0
    /\ dt = 0 => pendingFrames > 1
    /\ IF isSimulating
       THEN /\ ticks < MaxTrackTicks
            /\ PxTick(updateOnTrack(carSpecs, carState, dt, segments))
            /\ ticks' = ticks + 1
       ELSE /\ lastOp' = "tickIdle"
            /\ pendingFrames' = (pendingFrames - 1) + 1
            /\ UNCHANGED << carState, ticks >>
    /\ UNCHANGED << segments, racingLine, isSimulating, previewTurnRight,
                    settings, carSpecs, currentRacingLine, pureCall >>

PxNext ==
    \/ \E pt \in PxDropPoints : PxDropStart(pt)
    \/ \E i \in 2..Len(pxPalette) : PxDropPiece(pxPalette[i])
    \/ PxKeyR
    \/ PxStartSimulation
    \/ \E dt \in FrameGaps : PxAnimate(dt)

PxSpec == PxInit /\ [][PxNext]_vars

\* ------------------------------------------------------------------------
\* Functions called on their own
\* ------------------------------------------------------------------------
\* the longest chain of pieces buildNextFrom is applied to after a Start
MaxChain == 5

\* the points a chain starts at
ChainStarts == { [x |-> 0, y |-> 0], [x |-> 50000, y |-> 30000] }

\* the pieces a chain repeats: curves of 45 and 90 degrees with radii of
\* 30, 60 and 90 pixels
ChainCurves ==
    { [label |-> "Curve", type |-> "curve45", radius |-> r, angle |-> 45] :
          r \in {30, 60, 90} }
    \cup { [label |-> "Curve", type |-> "curve90", radius |-> r, angle |-> 90] :
               r \in {30, 60, 90} }

\* the calls of buildNextFrom in a row: a Start segment, then one of the
\* straight pieces of the palette, then the same curve piece until the
\* chain is MaxChain pieces long, all with one turn direction
ChainCalls ==
    { [fn |-> "buildNextFrom",
       track |-> << StartSegment(palette[1], pt.x, pt.y) >>,
       pieces |-> [i \in 1..MaxChain |-> IF i = 1 THEN palette[straight] ELSE curve],
       turnRight |-> turnRight] :
          pt \in ChainStarts, straight \in {2, 3}, curve \in ChainCurves,
          turnRight \in BOOLEAN }

\* the segments computeEndOf is called on: curves of the three angles in
\* both directions, with a radius of 60 length units and of 6 m, at the
\* origin and at a drop point, heading along and across the axes
EndPoseCalls ==
    { [fn |-> "computeEndOf",
       seg |-> [type |-> piece.type, radius |-> radius,
                angle |-> direction * piece.angle,
                position |-> pt, heading |-> heading],
       returned |-> FALSE,
       result |-> [x |-> 0, y |-> 0, heading |-> 0]] :
          piece \in { palette[i] : i \in 4..6 }, direction \in {-1, 1},
          radius \in {60, PxToM(60)}, pt \in ChainStarts,
          heading \in {0, HalfPi, -HalfPi, Pi} }

\* curve segments with a signed angle of 0 or a radius of 0 or -6 m, at a
\* drop point, heading along and across the axes
DegenerateCurves ==
    { seg \in
        { [type |-> piece.type, radius |-> radius,
           angle |-> direction * piece.angle,
           position |-> [x |-> 50000, y |-> 30000], heading |-> heading] :
              piece \in { palette[i] : i \in 4..6 },
              radius \in {PxToM(60), 0, -PxToM(60)},
              direction \in {-1, 0, 1},
              heading \in {0, HalfPi, -HalfPi, Pi} } :
        seg.radius <= 0 \/ seg.angle = 0 }

\* the calls of computeEndOf and of computeCenterPoint, at the start of
\* the segment and 5 mm into it, on those segments
DegenerateCalls ==
    { [fn |-> "computeEndOf", seg |-> seg, returned |-> FALSE,
       result |-> [x |-> 0, y |-> 0, heading |-> 0]] :
          seg \in DegenerateCurves }
    \cup
    { [fn |-> "computeCenterPoint", seg |-> seg, distance |-> distance,
       returned |-> FALSE, result |-> [x |-> 0, y |-> 0, heading |-> 0]] :
          seg \in DegenerateCurves, distance \in {0, 50} }

\* the number of points of a line calculateTargetSpeed is called on: the
\* look-ahead window reaches 45 points past the index hint
TurningLineLen == 60

RECURSIVE TurningPoints(_, _, _, _)
\* `points` continued to n points, each `spacing` further along the heading
\* of the one before it and turned by `turn` against it
TurningPoints(spacing, turn, n, points) ==
    IF Len(points) >= n THEN points
    ELSE TurningPoints(spacing, turn, n,
             Append(points,
                 [x |-> points[Len(points)].x
                            + MulCos(spacing, points[Len(points)].heading),
                  y |-> points[Len(points)].y
                            + MulSin(spacing, points[Len(points)].heading),
                  heading |-> points[Len(points)].heading + turn,
                  s |-> points[Len(points)].s + spacing]))

\* a racing line through a curve of constant radius spacing / turn: points
\* `spacing` apart whose heading changes by `turn` from each to the next
TurningLine(spacing, turn) ==
    TurningPoints(spacing, turn, TurningLineLen,
                  << [x |-> 0, y |-> 0, heading |-> 0, s |-> 0] >>)

\* the point spacings (0.2 m and 0.5 m) and the heading changes per point
\* (in 1e-4 rad) of those lines: radii from 0.08 m to 1000 m
Spacings == {2000, 5000}

Turns == {5, 6, 100, 300, 1000, 2500}

\* the specs calculateTargetSpeed is called with: the initial ones, no
\* grip, no mass, and a grip of -0.8
TargetSpecs ==
    { updateSpecs(InitialSettings),
      updateSpecs([InitialSettings EXCEPT !.tireGrip = 0]),
      updateSpecs([InitialSettings EXCEPT !.mass = 0]),
      updateSpecs([InitialSettings EXCEPT !.tireGrip = -8]) }

\* the calls of calculateTargetSpeed
TargetSpeedCalls ==
    { [fn |-> "calculateTargetSpeed",
       specs |-> specs, index |-> index, spacing |-> spacing, turn |-> turn,
       returned |-> FALSE, result |-> Fin(0)] :
          specs \in TargetSpecs, index \in {0, 10, TurningLineLen - 1},
          spacing \in Spacings, turn \in Turns }

\* the car states Car.update is called in: at rest or at 10 m/s, at s = 0,
\* 0.5 m or 2 m, with the index hint at 0 or 7
UpdateStates ==
    { [ZeroState EXCEPT !.s = Fin(s), !.speed = Fin(speed),
                        !.racingLineIndex = index] :
          s \in {0, 5000, 20000}, speed \in {0, startSpeed}, index \in {0, 7} }

\* the calls of Car.update: on every two-segment list the editor builds,
\* with the car's racing line still empty or already built from that list
UpdateCalls ==
    { [fn |-> "update",
       specs |-> specs, state |-> state,
       line |-> IF built THEN BuildLine(track) ELSE << >>,
       dt |-> dt, track |-> track,
       returned |-> FALSE,
       result |-> [state |-> state, line |-> << >>, threw |-> FALSE]] :
          specs \in { updateSpecs(InitialSettings),
                      updateSpecs([InitialSettings EXCEPT !.mass = 0]) },
          state \in UpdateStates, built \in BOOLEAN, dt \in Dts,
          track \in TracksOfLen(2) }

\* the speeds and target speeds the decision of Car.update is taken at:
\* speeds around 0.9 and 1.1 times the floor, the safe speed and the cap,
\* and NaN for either
ControlSpeeds ==
    { Fin(v) : v \in {0, 449, 450, 451, 549, 550, 551, startSpeed, 1799, 1800,
                      2200, 2201, 7199, 7200, maxSpeed} } \cup {NaN}

ControlTargets == { Fin(minTarget), Fin(safeSpeed), Fin(maxSpeed), NaN }

\* the calls of the throttle / brake decision and the two forces it
\* leads to
ControlCalls ==
    { [fn |-> "control",
       specs |-> specs, v |-> v, targetSpeed |-> targetSpeed,
       returned |-> FALSE,
       result |-> [throttle |-> 0, brake |-> 0, engineForce |-> 0,
                   brakeForce |-> 0]] :
          specs \in TargetSpecs, v \in ControlSpeeds,
          targetSpeed \in ControlTargets }

\* the component and its car as animate finds them: the racing lines of
\* both built from the segment list, the car at 10 m/s at s = 0.5 m, its
\* index hint at 0, at 7, at the last point of the line or beyond it
FrameComponents ==
    { [simulating |-> simulating, segs |-> track, rline |-> BuildLine(track),
       specs |-> updateSpecs(InitialSettings),
       state |-> [ZeroState EXCEPT
                     !.s = Fin(5000), !.speed = Fin(startSpeed),
                     !.racingLineIndex =
                         IF hint[1] = "end" THEN Len(BuildLine(track)) + hint[2]
                         ELSE hint[2]],
       line |-> BuildLine(track), pending |-> 1] :
          simulating \in BOOLEAN, track \in TracksOfLen(2),
          hint \in { <<"start", 0>>, <<"start", 7>>, <<"end", -1>>,
                     <<"end", 3>> } }

\* the calls of animate
AnimateCalls ==
    { [fn |-> "animate", component |-> c, dt |-> dt, returned |-> FALSE,
       result |-> [component |-> c, updates |-> 0, threw |-> FALSE]] :
          c \in FrameComponents, dt \in Dts }

\* a segment object without a type, placed at the end of `last`
UntypedSegment(last) ==
    [type |-> Undefined,
     position |-> [x |-> computeEndOf(last).x, y |-> computeEndOf(last).y],
     heading |-> computeEndOf(last).heading]

\* the segment lists updateRacingLine is called on: none, the lists of one
\* and two segments the editor builds, and those with a segment without a
\* type in second or third place
RacingLineSegments ==
    { << >> } \cup TracksOfLen(1) \cup TracksOfLen(2)
        \cup { Append(track, UntypedSegment(track[Len(track)])) :
                 track \in TracksOfLen(1) \cup TracksOfLen(2) }

\* the calls of updateRacingLine, the component's racing line being empty
\* or that of a Start piece alone
RacingLineCalls ==
    { [fn |-> "updateRacingLine", segs |-> segs, rline |-> rline,
       returned |-> FALSE, result |-> [rline |-> rline, threw |-> FALSE]] :
          segs \in RacingLineSegments,
          rline \in { << >> } \cup { BuildLine(track) : track \in TracksOfLen(1) } }

\* the functions called on their own, with their arguments
CallInputs ==
    ChainCalls \cup EndPoseCalls \cup TargetSpeedCalls \cup UpdateCalls
        \cup ControlCalls \cup AnimateCalls \cup RacingLineCalls
        \cup DegenerateCalls

\* the program at rest while one function is called on its own
CallInit ==
    /\ segments = << >>
    /\ racingLine = << >>
    /\ isSimulating = FALSE
    /\ previewTurnRight = FALSE
    /\ settings = InitialSettings
    /\ carSpecs = updateSpecs(InitialSettings)
    /\ carState = ZeroState
    /\ currentRacingLine = << >>
    /\ ticks = 0
    /\ lastOp = "init"
    /\ pureCall \in CallInputs
    /\ pendingFrames = 1

\* one call of buildNextFrom on the last segment of the chain, as onDrop
\* makes it (component lines 126-131)
CallBuildNextFrom ==
    /\ pureCall.fn = "buildNextFrom"
    /\ pureCall.pieces # << >>
    /\ pureCall' =
           [pureCall EXCEPT
               !.track = Append(@, buildNextFrom(@[Len(@)], Head(pureCall.pieces),
                                                 pureCall.turnRight)),
               !.pieces = Tail(@)]
    /\ UNCHANGED << segments, racingLine, isSimulating, previewTurnRight,
                    settings, carSpecs, carState, currentRacingLine, ticks,
                    lastOp, pendingFrames >>

\* one call of computeEndOf
CallComputeEndOf ==
    /\ pureCall.fn = "computeEndOf"
    /\ ~pureCall.returned
    /\ pureCall' = [pureCall EXCEPT !.returned = TRUE,
                                    !.result = computeEndOf(pureCall.seg)]
    /\ UNCHANGED << segments, racingLine, isSimulating, previewTurnRight,
                    settings, carSpecs, carState, currentRacingLine, ticks,
                    lastOp, pendingFrames >>

\* calculateTargetSpeed for a car with the given specs and index hint on
\* the line of the given spacing and turn
TargetSpeedOn(specs, index, spacing, turn) ==
    calculateTargetSpeed(specs, [ZeroState EXCEPT !.racingLineIndex = index],
                         TurningLine(spacing, turn))

\* one call of calculateTargetSpeed
CallCalculateTargetSpeed ==
    /\ pureCall.fn = "calculateTargetSpeed"
    /\ ~pureCall.returned
    /\ pureCall' = [pureCall EXCEPT
                       !.returned = TRUE,
                       !.result = TargetSpeedOn(pureCall.specs, pureCall.index,
                                                pureCall.spacing, pureCall.turn)]
    /\ UNCHANGED << segments, racingLine, isSimulating, previewTurnRight,
                    settings, carSpecs, carState, currentRacingLine, ticks,
                    lastOp, pendingFrames >>

\* one call of Car.update
CallUpdate ==
    /\ pureCall.fn = "update"
    /\ ~pureCall.returned
    /\ pureCall' = [pureCall EXCEPT
                       !.returned = TRUE,
                       !.result = update(pureCall.specs, pureCall.state,
                                         pureCall.line, pureCall.dt,
                                         pureCall.track)]
    /\ UNCHANGED << segments, racingLine, isSimulating, previewTurnRight,
                    settings, carSpecs, carState, currentRacingLine, ticks,
                    lastOp, pendingFrames >>

\* the decision a call takes and the forces Car.update derives from it
Decide(specs, control) ==
    [throttle |-> control.throttle, brake |-> control.brake,
     engineForce |-> EngineForce(specs, control),
     brakeForce |-> BrakeForce(specs, control)]

\* one pass through the throttle / brake decision and the force
\* computation of Car.update
CallControl ==
    /\ pureCall.fn = "control"
    /\ ~pureCall.returned
    /\ pureCall' = [pureCall EXCEPT
                       !.returned = TRUE,
                       !.result = Decide(pureCall.specs,
                                         Control(pureCall.v, pureCall.targetSpeed))]
    /\ UNCHANGED << segments, racingLine, isSimulating, previewTurnRight,
                    settings, carSpecs, carState, currentRacingLine, ticks,
                    lastOp, pendingFrames >>

\* animate once car.update has done r: the component, how many times
\* update was called and whether it threw
AfterUpdate(c, r) ==
    [component |-> [c EXCEPT !.state = Caught(r, c.rline),
                             !.line = r.line,
                             !.pending = (c.pending - 1) + 1],
     updates |-> 1, threw |-> r.threw]

\* animate on the component c, a callback the browser holds: what
\* AnimateBody does to the component's own variables
AnimateOn(c, dt) ==
    IF c.simulating /\ Len(c.segs) > 0 /\ Len(c.rline) > 1
    THEN AfterUpdate(c, update(c.specs, c.state, c.line, dt, c.segs))
    ELSE [component |-> [c EXCEPT !.pending = (c.pending - 1) + 1],
          updates |-> 0, threw |-> FALSE]

\* one call of animate
CallAnimate ==
    /\ pureCall.fn = "animate"
    /\ ~pureCall.returned
    /\ pureCall.component.pending > 0
    /\ pureCall' = [pureCall EXCEPT
                       !.returned = TRUE,
                       !.result = AnimateOn(pureCall.component, pureCall.dt)]
    /\ UNCHANGED << segments, racingLine, isSimulating, previewTurnRight,
                    settings, carSpecs, carState, currentRacingLine, ticks,
                    lastOp, pendingFrames >>

\* one call of computeCenterPoint
CallComputeCenterPoint ==
    /\ pureCall.fn = "computeCenterPoint"
    /\ ~pureCall.returned
    /\ pureCall' = [pureCall EXCEPT
                       !.returned = TRUE,
                       !.result = computeCenterPoint(pureCall.seg,
                                                     pureCall.distance)]
    /\ UNCHANGED << segments, racingLine, isSimulating, previewTurnRight,
                    settings, carSpecs, carState, currentRacingLine, ticks,
                    lastOp, pendingFrames >>

\* one call of updateRacingLine
CallUpdateRacingLine ==
    /\ pureCall.fn = "updateRacingLine"
    /\ ~pureCall.returned
    /\ pureCall' = [pureCall EXCEPT
                       !.returned = TRUE,
                       !.result = TryUpdateRacingLine(pureCall.segs,
                                                      pureCall.rline)]
    /\ UNCHANGED << segments, racingLine, isSimulating, previewTurnRight,
                    settings, carSpecs, carState, currentRacingLine, ticks,
                    lastOp, pendingFrames >>

CallNext ==
    \/ CallBuildNextFrom
    \/ CallComputeEndOf
    \/ CallCalculateTargetSpeed
    \/ CallUpdate
    \/ CallControl
    \/ CallAnimate
    \/ CallUpdateRacingLine
    \/ CallComputeCenterPoint

CallSpec == CallInit /\ [][CallNext]_vars

\* ------------------------------------------------------------------------
\* Properties
\* ------------------------------------------------------------------------
\* C1: in every reachable state the vehicle's speed is a number with
\* 0 <= speed <= maxSpeed, whatever the settings (mass = 0 included) and dt.
C1_SpeedInRange ==
    /\ IsFin(carState.speed)
    /\ carState.speed.v >= 0
    /\ carState.speed.v <= maxSpeed

\* C2: a start command issued with fewer than 2 segments, or a first
\* segment that is not Start, or a racing line of fewer than 2 points,
\* leaves every field of the vehicle state and the mode as they were.
C2_RejectedStartChangesNothing ==
    [][ ( /\ lastOp' \in {"start", "startRejected"}
          /\ \/ Len(segments) < 2
             \/ segments[1].type # "start"
             \/ Len(BuildLine(segments)) < 2 )
        => /\ lastOp' = "startRejected"
           /\ carState' = carState
           /\ isSimulating' = isSimulating ]_vars

\* C2: a start rejected in Idle on a one-segment list, with a vehicle state
\* left over from an earlier run
C2_Witness ==
    /\ lastOp = "startRejected"
    /\ Len(segments) = 1
    /\ ~isSimulating
    /\ carState.speed # Fin(0)

\* C3: a tick that advances the vehicle does so along the racing line built
\* from the segment list current at that tick.
C3_TickUsesCurrentLine ==
    lastOp = "tick" => currentRacingLine = BuildLine(segments)

\* C4: after clear the segment list is empty, the renderer's racing line
\* and the one the car holds are empty, the mode is Idle and the vehicle
\* state is zeroed (s = 0, speed = 0, index hint = 0).
C4_ClearZeroes ==
    lastOp = "clear" =>
        /\ segments = << >>
        /\ racingLine = << >>
        /\ currentRacingLine = << >>
        /\ ~isSimulating
        /\ carState.s = Fin(0)
        /\ carState.speed = Fin(0)
        /\ carState.racingLineIndex = 0

\* C5: after every accepted start, a restart included, s = 0, the index
\* hint is 0, and position and heading are those of racing-line point 0.
C5_StartAnchors ==
    lastOp = "start" =>
        /\ carState.s = Fin(0)
        /\ carState.racingLineIndex = 0
        /\ carState.position.x = Fin(racingLine[1].x)
        /\ carState.position.y = Fin(racingLine[1].y)
        /\ carState.heading = racingLine[1].heading

\* C6: after reset with a non-empty racing line, position and heading are
\* those of racing-line point 0, speed = 0, the index hint is 0 and s = 0.
C6_ResetAnchors ==
    (lastOp = "reset" /\ Len(racingLine) > 0) =>
        /\ carState.position.x = Fin(racingLine[1].x)
        /\ carState.position.y = Fin(racingLine[1].y)
        /\ carState.heading = racingLine[1].heading
        /\ carState.speed = Fin(0)
        /\ carState.racingLineIndex = 0
        /\ carState.s = Fin(0)

\* C7: a tick in Idle leaves the vehicle state as it was, and stop changes
\* the mode only: the vehicle state, the car's racing line, the segment
\* list and the renderer's racing line stay as they were.
C7_IdleHoldsState ==
    [][ /\ (~isSimulating /\ lastOp' \in {"tick", "tickThrew", "tickIdle"})
            => /\ carState' = carState
               /\ currentRacingLine' = currentRacingLine
        /\ lastOp' = "stop"
            => /\ ~isSimulating'
               /\ carState' = carState
               /\ currentRacingLine' = currentRacingLine
               /\ segments' = segments
               /\ racingLine' = racingLine
               /\ carSpecs' = carSpecs ]_vars

\* C7: a tick in Idle on a track a started run could use, with a vehicle
\* state an earlier tick has advanced
C7_Witness ==
    /\ lastOp = "tickIdle"
    /\ ~isSimulating
    /\ Len(segments) >= 2
    /\ ticks > 0
    /\ carState.s # Fin(0)

\* C8: for every i the start pose (position and heading) of segments[i+1]
\* is the end pose computeEndOf gives for segments[i].
C8_Continuity ==
    \A i \in 1..(Len(segments) - 1) :
        /\ segments[i + 1].position.x = computeEndOf(segments[i]).x
        /\ segments[i + 1].position.y = computeEndOf(segments[i]).y
        /\ segments[i + 1].heading = computeEndOf(segments[i]).heading

\* C8: a full list whose second segment is a right-hand curve that a
\* further curve continues
C8_Witness ==
    /\ Len(segments) = MaxEditorSegs
    /\ segments[2].type \in CurveTypes
    /\ segments[2].angle < 0
    /\ segments[3].type \in CurveTypes
    /\ lastOp = "dropPiece"

\* C9: the segment list is empty or has a Start segment first and nowhere
\* else; a Start drop leaves exactly that one segment, and a non-Start drop
\* on an empty list is rejected and leaves the list empty.
C9_StartFirstOnly ==
    /\ \/ segments = << >>
       \/ /\ segments[1].type = "start"
          /\ \A i \in 2..Len(segments) : segments[i].type # "start"
    /\ lastOp = "dropStart" => Len(segments) = 1
    /\ lastOp = "dropRejected" => segments = << >>

\* C9: a non-Start drop rejected on the empty list
C9_Witness ==
    /\ lastOp = "dropRejected"
    /\ segments = << >>

\* C10: the arc-length tags of the racing line the builder returns start at
\* 0 and never decrease from a point to the next, before smoothing (the
\* sampled line) and after it (the line returned).
C10_ArcLengthMonotone ==
    /\ racingLine # << >> =>
          /\ racingLine[1].s = 0
          /\ \A i \in 1..(Len(racingLine) - 1) :
                 racingLine[i].s <= racingLine[i + 1].s
    /\ \A sampled \in { SampleTrack(segments, 1, << >>) } :
          sampled # << >> =>
              /\ sampled[1].s = 0
              /\ \A i \in 1..(Len(sampled) - 1) :
                     sampled[i].s <= sampled[i + 1].s

\* C10: the line of a full list, which spans segment boundaries and has
\* positive length
C10_Witness ==
    /\ Len(segments) = MaxEditorSegs
    /\ Len(racingLine) > 3
    /\ racingLine[Len(racingLine)].s > 0

\* C11: the s of the last racing-line point is the sum of getSegmentLength
\* over the segments, in the unit the segments' lengths and radii are stored
\* in, within a sampling tolerance of one percent.
C11_FinalSIsTrackLength ==
    racingLine # << >> =>
        LET total[i \in 0..Len(segments)] ==
                IF i = 0 THEN 0
                ELSE total[i - 1] + getSegmentLength(segments[i])
        IN Abs(racingLine[Len(racingLine)].s - total[Len(segments)]) * 100
               <= total[Len(segments)]

\* C12 (as amended): for Start + a straight + four Curve90 pieces of equal
\* radius turning the same way, chained by buildNextFrom, the end pose of
\* the last segment is at the start position of the first curve (the end of
\* the straight) within 1 cm, and its heading is the start heading less a
\* full turn (right) or plus a full turn (left).
C12_CurvesCloseOnFirstCurve ==
    ( /\ pureCall.fn = "buildNextFrom"
      /\ Len(pureCall.track) >= 6
      /\ pureCall.track[3].type = "curve90" )
    => /\ Abs(computeEndOf(pureCall.track[6]).x - pureCall.track[3].position.x)
              <= LenScale \div 100
       /\ Abs(computeEndOf(pureCall.track[6]).y - pureCall.track[3].position.y)
              <= LenScale \div 100
       /\ computeEndOf(pureCall.track[6]).heading =
              pureCall.track[1].heading
                  + (IF pureCall.turnRight THEN -TwoPi ELSE TwoPi)

\* C12: the chain Start + Straight 100 + four right-turning Curve 90 of
\* radius 60 px, complete
C12_Witness ==
    /\ pureCall.fn = "buildNextFrom"
    /\ pureCall.pieces = << >>
    /\ Len(pureCall.track) = 6
    /\ pureCall.track[2].length = PxToM(100)
    /\ pureCall.track[3].type = "curve90"
    /\ pureCall.track[3].radius = PxToM(60)
    /\ pureCall.track[6].angle = -90

\* C12 (as stated): for Start + Straight 100 + four right-turning Curve90
\* pieces of equal radius, the end pose of the last segment is at the start
\* position of the Start segment within 1 cm and has the start heading (up
\* to full turns).
C12_LoopClosesOnStart ==
    ( /\ pureCall.fn = "buildNextFrom"
      /\ Len(pureCall.track) >= 6
      /\ pureCall.turnRight
      /\ pureCall.track[2].length = PxToM(100)
      /\ pureCall.track[3].type = "curve90" )
    => /\ Abs(computeEndOf(pureCall.track[6]).x - pureCall.track[1].position.x)
              <= LenScale \div 100
       /\ Abs(computeEndOf(pureCall.track[6]).y - pureCall.track[1].position.y)
              <= LenScale \div 100
       /\ normalizeAngle(computeEndOf(pureCall.track[6]).heading
                             - pureCall.track[1].heading) = 0

\* C13: for a Curve90 of radius R at (0, 0) with heading 0, computeEndOf
\* returns (R, R) and heading +pi/2 for the signed angle +90, and (R, -R)
\* and heading -pi/2 for -90, within one length unit plus R / 1000; R is 60
\* in the length unit and, as the editor stores the palette curve, 6 m.
C13_QuarterTurnEndPose ==
    ( /\ pureCall.fn = "computeEndOf"
      /\ pureCall.returned
      /\ pureCall.seg.type = "curve90"
      /\ pureCall.seg.position = [x |-> 0, y |-> 0]
      /\ pureCall.seg.heading = 0 )
    => /\ Abs(pureCall.result.x - pureCall.seg.radius)
              <= 1 + pureCall.seg.radius \div 1000
       /\ Abs(pureCall.result.y - Sign(pureCall.seg.angle) * pureCall.seg.radius)
              <= 1 + pureCall.seg.radius \div 1000
       /\ pureCall.result.heading = Sign(pureCall.seg.angle) * HalfPi

\* C13: computeEndOf has returned for the right-turning Curve90 of radius
\* 60 at the origin with heading 0
C13_Witness ==
    /\ pureCall.fn = "computeEndOf"
    /\ pureCall.returned
    /\ pureCall.seg.type = "curve90"
    /\ pureCall.seg.angle = -90
    /\ pureCall.seg.radius = 60
    /\ pureCall.seg.position = [x |-> 0, y |-> 0]
    /\ pureCall.seg.heading = 0
    /\ pureCall.result = [x |-> 60, y |-> -60, heading |-> -HalfPi]

C15_TargetSpeedMonotone ==
    ( /\ pureCall.fn = "calculateTargetSpeed"
      /\ pureCall.returned )
    => \A sharper \in { t \in Turns : t > pureCall.turn } :
           \A target \in { TargetSpeedOn(pureCall.specs, pureCall.index,
                                         pureCall.spacing, sharper) } :
               /\ ~EGt(target, pureCall.result)
               /\ ELt(target, pureCall.result) \/ target = Fin(minTarget)

\* C16: after updateSpecs(settings) every field of the settings (mass,
\* enginePower, dragCoeff, frontalArea, tireGrip, downforce, finalDrive,
\* wheelbase) is set in the car and equals the field of the settings.
C16_SpecsFullyReplaced ==
    lastOp \in {"init", "settings"} =>
        \A field \in DOMAIN settings :
            /\ field \in DOMAIN carSpecs
            /\ carSpecs[field] = settings[field]

\* C17: the smoothed line has as many points as the sampled one; its first
\* and last points are those of the sampled line; every point keeps its
\* heading and its s; and the x and y of an interior point are the
\* 0.25 / 0.5 / 0.25 average of its neighbours and itself, taken twice.
C17_SmoothingFrame ==
    \A sampled \in { SampleTrack(segments, 1, << >>) } :
        sampled # << >> =>
            LET n == Len(sampled)
                once == [i \in 1..n |->
                    IF i = 1 \/ i = n THEN [x |-> sampled[i].x, y |-> sampled[i].y]
                    ELSE [x |-> RDiv(sampled[i - 1].x + 2 * sampled[i].x
                                         + sampled[i + 1].x, 4),
                          y |-> RDiv(sampled[i - 1].y + 2 * sampled[i].y
                                         + sampled[i + 1].y, 4)]]
            IN /\ Len(racingLine) = n
               /\ racingLine[1] = sampled[1]
               /\ racingLine[n] = sampled[n]
               /\ \A i \in 1..n :
                      /\ racingLine[i].heading = sampled[i].heading
                      /\ racingLine[i].s = sampled[i].s
               /\ \A i \in 2..(n - 1) :
                      /\ racingLine[i].x =
                             RDiv(once[i - 1].x + 2 * once[i].x + once[i + 1].x, 4)
                      /\ racingLine[i].y =
                             RDiv(once[i - 1].y + 2 * once[i].y + once[i + 1].y, 4)

\* C17: the smoothed line of a list that ends in a curve, where smoothing
\* has moved an interior point off the sampled one
C17_Witness ==
    /\ Len(segments) >= 2
    /\ segments[Len(segments)].type \in CurveTypes
    /\ \E i \in 2..(Len(racingLine) - 1) :
           racingLine[i].y # SampleTrack(segments, 1, << >>)[i].y

\* C18: a tick leaves the segment list, the renderer's racing line and a
\* racing line the car has already built as they were.
C18_TickKeepsTrackAndLine ==
    [][ lastOp' \in {"tick", "tickThrew"}
        => /\ segments' = segments
           /\ racingLine' = racingLine
           /\ currentRacingLine # << >> => currentRacingLine' = currentRacingLine
      ]_vars

\* C18: a second tick has advanced the car along the line the first built
C18_Witness ==
    /\ lastOp = "tick"
    /\ ticks >= 2
    /\ currentRacingLine # << >>
    /\ IsFin(carState.s)
    /\ carState.s.v > 0

\* C19: a tick that finds the car's racing line empty and the segment list
\* not empty leaves the car with the line built from the segment list, and
\* advances the car from s = 0 and index hint 0: the result is that of a
\* tick on that line from the same state with s and the hint at 0, and the
\* new s is the distance covered in this tick alone.
C19_RebuildResetsS ==
    ( /\ pureCall.fn = "update"
      /\ pureCall.returned
      /\ pureCall.line = << >>
      /\ pureCall.track # << >> )
    => /\ pureCall.result.line = computeRacingLine(pureCall.track)
       /\ pureCall.result =
              update(pureCall.specs,
                     [pureCall.state EXCEPT !.s = Fin(0), !.racingLineIndex = 0],
                     computeRacingLine(pureCall.track), pureCall.dt,
                     pureCall.track)
       /\ pureCall.result.state.s =
              EScale(pureCall.result.state.speed, pureCall.dt, 10)

\* C19: Car.update has returned from a call made with an empty racing line
\* in a state with s = 2 m and the index hint at 7
C19_Witness ==
    /\ pureCall.fn = "update"
    /\ pureCall.returned
    /\ pureCall.line = << >>
    /\ pureCall.state.s = Fin(20000)
    /\ pureCall.state.racingLineIndex = 7
    /\ pureCall.result.line # << >>
    /\ IsFin(pureCall.result.state.s)
    /\ pureCall.result.state.s.v > 0
    /\ pureCall.result.state.s.v < 20000

\* C20: after a tick on a racing line of length L > 0 the car's arc length s
\* is a number with 0 <= s <= L.
C20_SWithinLine ==
    ( /\ lastOp = "tick"
      /\ currentRacingLine # << >>
      /\ currentRacingLine[Len(currentRacingLine)].s > 0 )
    => /\ IsFin(carState.s)
       /\ carState.s.v >= 0
       /\ carState.s.v <= currentRacingLine[Len(currentRacingLine)].s

\* C21: the index hint decreases only by a reset to 0.  A tick that neither
\* rebuilds the line nor passes its end leaves the hint where it was or
\* further on, unless the caller's guard sets it to 0; a tick that rebuilds
\* the line or passes its end leaves the hint where the forward search
\* from 0 stops; start and reset set it to 0 and no other operation
\* changes it.
C21_HintOnlyMovesForward ==
    [][ /\ lastOp' \in {"tick", "tickThrew"}
           => \/ carState'.racingLineIndex = 0
              \/ IF \/ currentRacingLine = << >>
                    \/ EGt(EAdd(carState.s, EScale(carState'.speed, DtCap, 10)),
                           Fin(currentRacingLine'[Len(currentRacingLine')].s))
                 THEN carState'.racingLineIndex =
                          AdvanceIndex(currentRacingLine', carState'.s, 0)
                 ELSE carState'.racingLineIndex >= carState.racingLineIndex
        /\ lastOp' \notin {"tick", "tickThrew"}
           => \/ carState'.racingLineIndex = carState.racingLineIndex
              \/ /\ lastOp' \in {"start", "reset"}
                 /\ carState'.racingLineIndex = 0
      ]_vars

\* C21: a tick has taken the car past the end of its racing line (the new
\* s is less than the distance covered in the tick), and the forward
\* search has moved the hint on from 0
C21_Witness ==
    /\ lastOp = "tick"
    /\ IsFin(carState.s)
    /\ IsFin(carState.speed)
    /\ carState.s.v < EScale(carState.speed, DtCap, 10).v
    /\ carState.racingLineIndex > 0
    /\ carState.racingLineIndex < Len(currentRacingLine) - 2

\* C22: the decision is one of three: at a speed above 1.1 times the
\* target, brake 1 and no engine force; at a speed below 0.9 times the
\* target, throttle 1 and no brake force; otherwise throttle 0.3 and no
\* brake force.  Engine force and brake force are never both non-zero.
C22_OneDecision ==
    ( pureCall.fn = "control" /\ pureCall.returned )
    => /\ IF EGt(pureCall.v, EScale(pureCall.targetSpeed, 11, 10))
          THEN /\ pureCall.result.brake = 10
               /\ pureCall.result.throttle = 0
               /\ pureCall.result.engineForce = 0
          ELSE IF ELt(pureCall.v, EScale(pureCall.targetSpeed, 9, 10))
          THEN /\ pureCall.result.throttle = 10
               /\ pureCall.result.brake = 0
               /\ pureCall.result.brakeForce = 0
          ELSE /\ pureCall.result.throttle = 3
               /\ pureCall.result.brake = 0
               /\ pureCall.result.brakeForce = 0
       /\ ~( pureCall.result.engineForce # 0 /\ pureCall.result.brakeForce # 0 )

\* C22: the decision has been taken at 22.01 m/s for a target of 20 m/s with
\* the initial specs, and the brake force is not zero
C22_Witness ==
    /\ pureCall.fn = "control"
    /\ pureCall.returned
    /\ pureCall.v = Fin(2201)
    /\ pureCall.targetSpeed = Fin(safeSpeed)
    /\ pureCall.specs = updateSpecs(InitialSettings)
    /\ pureCall.result.brake = 10
    /\ pureCall.result.brakeForce > 0

\* C23: for specs with positive mass the target speed is a number from the
\* floor of 5 m/s to the cap of 80 m/s.
C23_TargetWithinFloorAndCap ==
    ( /\ pureCall.fn = "calculateTargetSpeed"
      /\ pureCall.returned
      /\ pureCall.specs.mass > 0 )
    => /\ IsFin(pureCall.result)
       /\ pureCall.result.v >= minTarget
       /\ pureCall.result.v <= maxSpeed

\* C24: when car.update throws in a frame taken while simulating, the
\* frame ends with the simulation still on, the index hint at 0 and one
\* callback requested, and the frame after it calls car.update again.
C24_ThrowKeepsRunning ==
    ( /\ pureCall.fn = "animate"
      /\ pureCall.returned
      /\ pureCall.component.simulating
      /\ pureCall.result.threw )
    => /\ pureCall.result.component.simulating
       /\ pureCall.result.component.state.racingLineIndex = 0
       /\ pureCall.result.component.pending = 1
       /\ pureCall.result.component.segs = pureCall.component.segs
       /\ pureCall.result.component.rline = pureCall.component.rline
       /\ AnimateOn(pureCall.result.component, pureCall.dt).updates = 1

\* C24: animate has returned from a frame in which car.update threw, the
\* hint having been at the last point of the racing line
C24_Witness ==
    /\ pureCall.fn = "animate"
    /\ pureCall.returned
    /\ pureCall.component.simulating
    /\ pureCall.component.state.racingLineIndex =
           Len(pureCall.component.line) - 1
    /\ pureCall.result.threw
    /\ pureCall.result.updates = 1

C26_DegenerateCurveStays ==
    ( /\ pureCall.fn \in {"computeEndOf", "computeCenterPoint"}
      /\ pureCall.returned
      /\ pureCall.seg.type \in CurveTypes
      /\ (pureCall.seg.radius <= 0 \/ pureCall.seg.angle = 0) )
    => /\ pureCall.result.x = pureCall.seg.position.x
       /\ pureCall.result.y = pureCall.seg.position.y

\* C27: while the simulation is running, the segment list has at least 2
\* segments, begins with the Start segment, and the racing line has at
\* least 2 points.
C27_RunningKeepsStartConditions ==
    isSimulating
    => /\ Len(segments) >= 2
       /\ segments[1].type = "start"
       /\ Len(racingLine) >= 2

\* C28: every racing-line element a tick reads exists.  No tick throws
\* (interpolatePosition throws exactly when p1 or p2 lies outside the
\* line); after a tick the hint i satisfies 0 <= i <= length - 2 on the
\* car's line; and the look-ahead scan from the hint reads indices within
\* 0..length - 1 only.
C28_ReadsWithinLine ==
    /\ lastOp # "tickThrew"
    /\ lastOp = "tick"
       => /\ carState.racingLineIndex >= 0
          /\ carState.racingLineIndex <= Len(currentRacingLine) - 2
    /\ \A j \in LookaheadReads(currentRacingLine, carState.racingLineIndex) :
           j >= 0 /\ j <= Len(currentRacingLine) - 1

\* C28: after a tick the hint is past the start of the line and the
\* look-ahead scan from it reads the last element of the line
C28_Witness ==
    /\ lastOp = "tick"
    /\ carState.racingLineIndex > 0
    /\ (Len(currentRacingLine) - 1)
           \in LookaheadReads(currentRacingLine, carState.racingLineIndex)

\* C29: at any time at most one animate callback is pending, however many
\* start commands have been issued: a start never adds a second tick loop.
C29_OneCallbackPending == pendingFrames <= 1

\* C30: every call of Car.update returns: the loop that moves the car
\* along the track never runs for ever, a track of zero-length segments
\* included.
C30_EveryUpdateReturns == ~Hung

====
